---------------------------- MODULE Spec2Model ----------------------------
(***************************************************************************)
(* A model of arcadeGraph.py: a grid on which "ships" (a position and a    *)
(* velocity, both in grid units) are created, removed, repositioned and    *)
(* advanced by keyboard, pointer and frame-tick callbacks of one window    *)
(* (class Game).  Every callback runs to completion on the single event    *)
(* loop, so each callback is one atomic action.                            *)
(*                                                                         *)
(* A ship is the record [x, y, dx, dy]: Ship.center.x, Ship.center.y,      *)
(* Ship.velocity.dx, Ship.velocity.dy.  The list Game.players is a         *)
(* sequence of ships (1-based here, 0-based in the source; the selected    *)
(* index playerToManipulate keeps the source's 0-based value).             *)
(* Game.held_keys is never added to by any callback and stays empty, so    *)
(* it is not a variable of the model; drawing changes no state.            *)
(***************************************************************************)
EXTENDS Integers, Sequences, FiniteSets, TLC

\* ---------------------------------------------------------------- constants
SCREEN_WIDTH == 12
SCREEN_HEIGHT == 10
PIXELS_PER_GRID == 75
MAX_NUMBER_OF_SHIPS == 9
\* number of entries of NUMBER_KEYS (KEY_1 .. KEY_9)
NUMBER_KEYS == 9
\* update(): the countdown is re-armed to 30
ADVANCE_PERIOD == 30
\* update(): g_alpha += 15 while g_alpha < 255
ALPHA_STEP == 15
ALPHA_MAX == 255
\* manipulateMainShip(): a press at most 100 ms after the last release
DOUBLE_CLICK_MS == 100

\* ------------------------------------------------------------------- bounds
\* Spec: creation requests are issued only while fewer ships exist
MaxPlayers == 3
\* milliseconds of wall-clock time explored after construction
MaxClock == 101
\* SpecMotion: the arrow keys are pressed only while the component stays within
\* -MaxSpeed .. MaxSpeed
MaxSpeed == 2
\* SpecMotion: A is pressed only while every ship stays within MaxOut cells of the grid
MaxOut == 2

VARIABLES
    players,              \* Game.players: sequence of ships
    playerToManipulate,   \* Game.playerToManipulate (0-based index)
    WRAP_AROUND_SCREEN,   \* the module-level global flag
    detailed,             \* Game.detailed
    constantUpdate,       \* Game.constantUpdate
    advanceTimer,         \* Game.advanceTimer
    g_alpha,              \* Game.g_alpha
    timeMouseReleased,    \* Game.timeMouseReleased (ms)
    drawHelpWindow,       \* Game.drawHelpWindow
    clock,                \* int(round(time.time() * 1000)), ms since construction
    crashed,              \* an uncaught exception left a callback: the program ended
    lastEvent,            \* history: the callback that ran last and its input
    before,               \* history: collection, selection and wrap flag before it
    beforePair,           \* history: the same before the first of two W presses in a row
    ticks,                \* history: frame ticks counted since the last advances
    angleRead             \* the velocity whose angle was last read, and that angle

vars == <<players, playerToManipulate, WRAP_AROUND_SCREEN, detailed, constantUpdate,
          advanceTimer, g_alpha, timeMouseReleased, drawHelpWindow, clock, crashed,
          lastEvent, before, beforePair, ticks, angleRead>>

\* ----------------------------------------------------------------- Velocity
(***************************************************************************)
(* The angle of a velocity.  dx and dy are Python numbers and the angle is *)
(* a double.  A component is written Scaled(n, e), the number n * 2^e, so  *)
(* that magnitudes beyond 32-bit integers can be stated; a ship's          *)
(* components are Scaled(dx, 0).                                           *)
(*                                                                         *)
(* An angle is written Angle(milli, off, lg, pow): milli is the            *)
(* millidegree nearest to the double, off tells whether the double lies    *)
(* below (-1), on (0) or above (1) that millidegree, lg is                 *)
(* floor(log2(distance)) of the double from it and pow tells whether that  *)
(* distance is 2^lg exactly (0 and FALSE when off = 0).  Subtraction and   *)
(* addition round as doubles do: a difference of at most half the spacing  *)
(* of the doubles around a whole number of degrees is absorbed.            *)
(***************************************************************************)
Scaled(n, e) == [n |-> n, e |-> e]
Angle(milli, off, lg, pow) == [milli |-> milli, off |-> off, lg |-> lg, pow |-> pow]
Whole(degrees) == Angle(degrees * 1000, 0, 0, FALSE)
abs(n) == IF n < 0 THEN -n ELSE n

\* floor(log2(n)) for n >= 1
RECURSIVE Log2(_)
Log2(n) == IF n < 2 THEN 0 ELSE 1 + Log2(n \div 2)

\* doubles have 53 significant bits: around a whole d >= 1 they are
\* 2^(Log2(d) - 52) apart, and a number within 2^(Log2(d) - 53) of d rounds to d
\* (to the even neighbour when exactly halfway)
Absorbed(milli, lg, pow) ==
    LET half == Log2(milli \div 1000) - 53
    IN  milli % 1000 = 0 /\ (lg < half \/ (lg = half /\ pow))

\* "whole - angle" and "whole + angle" of _fixedForQuadrant, whole in degrees
Minus(whole, angle) ==
    LET milli == whole * 1000 - angle.milli
    IN  IF angle.off = 0 \/ Absorbed(milli, angle.lg, angle.pow)
        THEN Angle(milli, 0, 0, FALSE)
        ELSE Angle(milli, -angle.off, angle.lg, angle.pow)
Plus(whole, angle) ==
    LET milli == whole * 1000 + angle.milli
    IN  IF angle.off = 0 \/ Absorbed(milli, angle.lg, angle.pow)
        THEN Angle(milli, 0, 0, FALSE)
        ELSE Angle(milli, angle.off, angle.lg, angle.pow)

\* math.degrees(math.atan(opposite * 2^shift / adjacent)), as computed in
\* double arithmetic, for opposite and adjacent in 1 .. 3 and the shifts 0
\* (components of like magnitude) and -51, 51 (one component 2^51 times the
\* other)
degreesOfAtan ==
    <<1, 1, -51>> :> Angle(0, 1, -46, FALSE) @@
    <<1, 2, -51>> :> Angle(0, 1, -47, FALSE) @@
    <<1, 3, -51>> :> Angle(0, 1, -47, FALSE) @@
    <<2, 1, -51>> :> Angle(0, 1, -45, FALSE) @@
    <<2, 2, -51>> :> Angle(0, 1, -46, FALSE) @@
    <<2, 3, -51>> :> Angle(0, 1, -46, FALSE) @@
    <<3, 1, -51>> :> Angle(0, 1, -44, FALSE) @@
    <<3, 2, -51>> :> Angle(0, 1, -45, FALSE) @@
    <<3, 3, -51>> :> Angle(0, 1, -46, FALSE) @@
    <<1, 1, 0>> :> Angle(45000, 0, 0, FALSE) @@
    <<1, 2, 0>> :> Angle(26565, 1, -15, FALSE) @@
    <<1, 3, 0>> :> Angle(18435, -1, -15, FALSE) @@
    <<2, 1, 0>> :> Angle(63435, -1, -15, FALSE) @@
    <<2, 2, 0>> :> Angle(45000, 0, 0, FALSE) @@
    <<2, 3, 0>> :> Angle(33690, 1, -14, FALSE) @@
    <<3, 1, 0>> :> Angle(71565, 1, -15, FALSE) @@
    <<3, 2, 0>> :> Angle(56310, -1, -14, FALSE) @@
    <<3, 3, 0>> :> Angle(45000, 0, 0, FALSE) @@
    <<1, 1, 51>> :> Angle(90000, -1, -45, TRUE) @@
    <<1, 2, 51>> :> Angle(90000, -1, -44, TRUE) @@
    <<1, 3, 51>> :> Angle(90000, -1, -44, FALSE) @@
    <<2, 1, 51>> :> Angle(90000, -1, -46, TRUE) @@
    <<2, 2, 51>> :> Angle(90000, -1, -45, TRUE) @@
    <<2, 3, 51>> :> Angle(90000, -1, -45, FALSE) @@
    <<3, 1, 51>> :> Angle(90000, 0, 0, FALSE) @@
    <<3, 2, 51>> :> Angle(90000, -1, -46, TRUE) @@
    <<3, 3, 51>> :> Angle(90000, -1, -45, TRUE)

\* _getTheta(): the quotient handed to math.atan, opposite * 2^shift / adjacent;
\* a zero adjacent raises ZeroDivisionError
getTheta(dx, dy) ==
    [opposite |-> abs(dy.n), adjacent |-> abs(dx.n), shift |-> dy.e - dx.e,
     raised |-> dx.n = 0]

\* _fixedForQuadrant()
fixedForQuadrant(dx, dy, angle) ==
    IF dx.n >= 0
    THEN IF dy.n >= 0 THEN angle ELSE Minus(360, angle)
    ELSE IF dy.n >= 0 THEN Minus(180, angle) ELSE Plus(180, angle)

\* the diagonal case of _getDegrees(): the quotient is formed, whatever dx is
diagonal(dx, dy) ==
    LET theta == getTheta(dx, dy)
    IN  [angle |-> IF theta.raised THEN Whole(0)
                   ELSE fixedForQuadrant(dx, dy,
                            degreesOfAtan[<<theta.opposite, theta.adjacent,
                                            theta.shift>>]),
         divided |-> TRUE, raised |-> theta.raised]

\* Mutant of getDegrees: the test for dx == 0 is missing.
getDegreesWithoutVertical(dx, dy) ==
    IF dy.n = 0
    THEN [angle |-> IF dx.n >= 0 THEN Whole(0) ELSE Whole(180),
          divided |-> FALSE, raised |-> FALSE]
    ELSE diagonal(dx, dy)

\* _getDegrees(): the angle, whether the quotient |dy| / |dx| was formed, and
\* whether forming it raised ZeroDivisionError
getDegrees(dx, dy) ==
    IF dy.n = 0
    THEN [angle |-> IF dx.n >= 0 THEN Whole(0) ELSE Whole(180),
          divided |-> FALSE, raised |-> FALSE]
    ELSE IF dx.n = 0
    THEN [angle |-> IF dy.n > 0 THEN Whole(90) ELSE Whole(270),
          divided |-> FALSE, raised |-> FALSE]
    ELSE diagonal(dx, dy)

\* Velocity.angle, read for a velocity (dx, dy)
read(dx, dy) == [dx |-> dx, dy |-> dy, degrees |-> getDegrees(dx, dy)]

\* ------------------------------------------------------------ Point, Ship
Ship(x, y, dx, dy) == [x |-> x, y |-> y, dx |-> dx, dy |-> dy]

\* Mutant of randint: one more value at either end.
randintBeyond(a, b) == a - 1 .. b + 1

\* random.randint(a, b): any integer of a..b
randint(a, b) == a .. b

\* The states Ship.reset() can leave a ship in.
ResetOutcomes ==
    [x : randint(2, SCREEN_WIDTH - 2), y : randint(2, SCREEN_HEIGHT - 2),
     dx : randint(-3, 3), dy : randint(-3, 3)]

\* Ship.reset() with the four draws r.
reset(ship, r) == [ship EXCEPT !.x = r.x, !.y = r.y, !.dx = r.dx, !.dy = r.dy]

\* Mutant of wrapOffScreen: a modulo wrap, which keeps the overshoot.
wrapOffScreenModulo(ship) ==
    [ship EXCEPT !.x = @ % (SCREEN_WIDTH + 1), !.y = @ % (SCREEN_HEIGHT + 1)]

\* Mutant of wrapOffScreen: the two edges are swapped, so a ship stops at the
\* edge it crossed.
wrapOffScreenNearEdge(ship) ==
    [ship EXCEPT
        !.x = IF @ < 0 THEN 0 ELSE IF @ > SCREEN_WIDTH THEN SCREEN_WIDTH ELSE @,
        !.y = IF @ < 0 THEN 0 ELSE IF @ > SCREEN_HEIGHT THEN SCREEN_HEIGHT ELSE @]

\* Ship.wrapOffScreen()
wrapOffScreen(ship) ==
    [ship EXCEPT
        !.x = IF @ < 0 THEN SCREEN_WIDTH ELSE IF @ > SCREEN_WIDTH THEN 0 ELSE @,
        !.y = IF @ < 0 THEN SCREEN_HEIGHT ELSE IF @ > SCREEN_HEIGHT THEN 0 ELSE @]

\* Mutant of advance: never wraps.
advanceNeverWrapping(ship, wrap) ==
    [ship EXCEPT !.x = @ + ship.dx, !.y = @ + ship.dy]

\* Mutant of advance: wraps whatever the flag says.
advanceAlwaysWrapping(ship, wrap) ==
    wrapOffScreen([ship EXCEPT !.x = @ + ship.dx, !.y = @ + ship.dy])

\* Ship.advance(), reading the global flag
advance(ship, wrap) ==
    LET moved == [ship EXCEPT !.x = @ + ship.dx, !.y = @ + ship.dy]
    IN  IF wrap THEN wrapOffScreen(moved) ELSE moved

\* "for thing in self.players: thing.advance()"
advanceAll(ps, wrap) == [i \in 1 .. Len(ps) |-> advance(ps[i], wrap)]

\* "for ship in self.players: ship.wrapOffScreen()"
wrapAll(ps) == [i \in 1 .. Len(ps) |-> wrapOffScreen(ps[i])]

\* ------------------------------------------------------- collection helpers
\* list.remove of the element at 1-based position i
RemoveIndex(ps, i) == SubSeq(ps, 1, i - 1) \o SubSeq(ps, i + 1, Len(ps))

\* Game.shipAtPoint(): the 1-based position of the first ship at (x, y); 0 is None
shipAtPoint(ps, x, y) ==
    LET hits == {i \in 1 .. Len(ps) : ps[i].x = x /\ ps[i].y = y}
    IN  IF hits = {} THEN 0 ELSE CHOOSE i \in hits : \A j \in hits : i <= j

\* Mutant of removeShipsAt: an "if" for the "while", removing one ship only.
removeShipsAtOnce(ps, x, y) ==
    IF shipAtPoint(ps, x, y) # 0 /\ Len(ps) > 1
    THEN RemoveIndex(ps, shipAtPoint(ps, x, y))
    ELSE ps

\* manageShipList(): "while existingShip != None and len(self.players) > 1"
RECURSIVE removeShipsAt(_, _, _)
removeShipsAt(ps, x, y) ==
    IF shipAtPoint(ps, x, y) # 0 /\ Len(ps) > 1
    THEN removeShipsAt(RemoveIndex(ps, shipAtPoint(ps, x, y)), x, y)
    ELSE ps

\* Mutant of reclamp: the selected index is left as it is.
reclampSkipped(sel, n) == sel

\* manageShipList(): "while self.playerToManipulate >= len(self.players): -= 1"
RECURSIVE reclamp(_, _)
reclamp(sel, n) == IF sel >= n THEN reclamp(sel - 1, n) ELSE sel

\* manageShipList(): shipWasThere is set only inside the removal loop
shipWasThere(ps, x, y) == shipAtPoint(ps, x, y) # 0 /\ Len(ps) > 1

\* Mutant of managedPlayers: the capacity test is "<=" for "<".
managedPlayersOffByOne(ps, x, y, r) ==
    IF shipWasThere(ps, x, y)
    THEN removeShipsAt(ps, x, y)
    ELSE IF Len(ps) <= MAX_NUMBER_OF_SHIPS
         THEN Append(ps, [reset(Ship(0, 0, 0, 0), r) EXCEPT !.x = x, !.y = y])
         ELSE ps

\* Mutant of managedPlayers: the new ship is inserted in front.
managedPlayersInFront(ps, x, y, r) ==
    IF shipWasThere(ps, x, y)
    THEN removeShipsAt(ps, x, y)
    ELSE IF Len(ps) < MAX_NUMBER_OF_SHIPS
         THEN <<[reset(Ship(0, 0, 0, 0), r) EXCEPT !.x = x, !.y = y]>> \o ps
         ELSE ps

\* manageShipList(): the new collection; r are the draws of the new Ship()'s reset()
managedPlayers(ps, x, y, r) ==
    IF shipWasThere(ps, x, y)
    THEN removeShipsAt(ps, x, y)
    ELSE IF Len(ps) < MAX_NUMBER_OF_SHIPS
         THEN Append(ps, [reset(Ship(0, 0, 0, 0), r) EXCEPT !.x = x, !.y = y])
         ELSE ps

\* manageShipList(): the new selected index
managedSelection(ps, sel, x, y) ==
    IF shipWasThere(ps, x, y) THEN reclamp(sel, Len(removeShipsAt(ps, x, y))) ELSE sel

\* SPACE: "while len(self.players) > 1: self.players.remove(self.players[1])"
RECURSIVE removeAllButFirst(_)
removeAllButFirst(ps) ==
    IF Len(ps) > 1 THEN removeAllButFirst(RemoveIndex(ps, 2)) ELSE ps

\* on_mouse_press(): "x // PIXELS_PER_GRID"
gridOf(pixel) == pixel \div PIXELS_PER_GRID

\* ------------------------------------------------------------------ history
NoPair == [valid |-> FALSE, players |-> <<>>, WRAP_AROUND_SCREEN |-> FALSE]

Snapshot ==
    [players |-> players, playerToManipulate |-> playerToManipulate,
     WRAP_AROUND_SCREEN |-> WRAP_AROUND_SCREEN, detailed |-> detailed,
     constantUpdate |-> constantUpdate, advanceTimer |-> advanceTimer,
     g_alpha |-> g_alpha, timeMouseReleased |-> timeMouseReleased,
     drawHelpWindow |-> drawHelpWindow, clock |-> clock]

\* The tick counters: sinceAdvance, the frame ticks since the last advance of any
\* kind; sinceAuto, the frame ticks since the last timer-driven advance, the
\* timer flag not having been toggled since; gap, the frame ticks between the
\* last two timer-driven advances, the flag not having been toggled between
\* them or since.  -1 stands for "no such advance"; the counters stop one past
\* the value the program's constants let them reach.
NoTicks == [sinceAdvance |-> -1, sinceAuto |-> -1, gap |-> -1]
Counted(n, cap) == IF n < 0 THEN -1 ELSE IF n >= cap THEN cap ELSE n + 1
TicksAfter(op) ==
    CASE op = "TICK_ADVANCE" ->
            [sinceAdvance |-> 0, sinceAuto |-> 0,
             gap |-> Counted(ticks.sinceAuto, ADVANCE_PERIOD + 1)]
      [] op = "TICK" ->
            [ticks EXCEPT
                !.sinceAdvance = Counted(@, ALPHA_MAX \div ALPHA_STEP + 1),
                !.sinceAuto = Counted(@, ADVANCE_PERIOD + 1)]
      [] op = "A" -> [ticks EXCEPT !.sinceAdvance = 0]
      [] op = "T" -> [ticks EXCEPT !.sinceAuto = -1, !.gap = -1]
      [] OTHER -> ticks

\* Every callback records itself, the state it started from and, for a W press
\* that directly follows a W press, the state the first of the two started from.
Note(op, x, y) ==
    /\ lastEvent' = [op |-> op, x |-> x, y |-> y]
    /\ before' = Snapshot
    /\ beforePair' = IF op = "W" /\ lastEvent.op = "W"
                     THEN [valid |-> TRUE, players |-> before.players,
                           WRAP_AROUND_SCREEN |-> before.WRAP_AROUND_SCREEN]
                     ELSE NoPair
    /\ ticks' = TicksAfter(op)
    /\ UNCHANGED angleRead

\* --------------------------------------------------------------------- Init
\* Game.__init__ with the draws r of the first Ship()'s reset()
InitWith(r) ==
    /\ r \in ResetOutcomes
    /\ players = <<reset(Ship(0, 0, 0, 0), r)>>
    /\ playerToManipulate = 0
    /\ WRAP_AROUND_SCREEN = TRUE
    /\ detailed = FALSE
    /\ constantUpdate = FALSE
    /\ advanceTimer = 0
    /\ g_alpha = ALPHA_MAX
    /\ clock = 0
    /\ timeMouseReleased = clock
    /\ drawHelpWindow = FALSE
    /\ crashed = FALSE
    /\ lastEvent = [op |-> "INIT", x |-> 0, y |-> 0]
    /\ before = Snapshot
    /\ beforePair = NoPair
    /\ ticks = NoTicks
    /\ angleRead = read(Scaled(0, 0), Scaled(0, 0))

\* ------------------------------------------------------------- on_key_press
\* SPACE; r are the draws of players[0].reset()
KeySpace(r) ==
    /\ ~crashed
    /\ r \in ResetOutcomes
    /\ players' = removeAllButFirst([players EXCEPT ![1] = reset(@, r)])
    /\ Note("SPACE", 0, 0)
    /\ UNCHANGED <<playerToManipulate, WRAP_AROUND_SCREEN, detailed, constantUpdate,
                   advanceTimer, g_alpha, timeMouseReleased, drawHelpWindow, clock,
                   crashed>>

\* A
KeyA ==
    /\ ~crashed
    /\ g_alpha' = 0
    /\ players' = advanceAll(players, WRAP_AROUND_SCREEN)
    /\ Note("A", 0, 0)
    /\ UNCHANGED <<playerToManipulate, WRAP_AROUND_SCREEN, detailed, constantUpdate,
                   advanceTimer, timeMouseReleased, drawHelpWindow, clock, crashed>>

\* UP, DOWN, RIGHT, LEFT: always players[0]
KeyUp ==
    /\ ~crashed
    /\ players' = [players EXCEPT ![1].dy = @ + 1]
    /\ Note("UP", 0, 0)
    /\ UNCHANGED <<playerToManipulate, WRAP_AROUND_SCREEN, detailed, constantUpdate,
                   advanceTimer, g_alpha, timeMouseReleased, drawHelpWindow, clock,
                   crashed>>

KeyDown ==
    /\ ~crashed
    /\ players' = [players EXCEPT ![1].dy = @ - 1]
    /\ Note("DOWN", 0, 0)
    /\ UNCHANGED <<playerToManipulate, WRAP_AROUND_SCREEN, detailed, constantUpdate,
                   advanceTimer, g_alpha, timeMouseReleased, drawHelpWindow, clock,
                   crashed>>

KeyRight ==
    /\ ~crashed
    /\ players' = [players EXCEPT ![1].dx = @ + 1]
    /\ Note("RIGHT", 0, 0)
    /\ UNCHANGED <<playerToManipulate, WRAP_AROUND_SCREEN, detailed, constantUpdate,
                   advanceTimer, g_alpha, timeMouseReleased, drawHelpWindow, clock,
                   crashed>>

KeyLeft ==
    /\ ~crashed
    /\ players' = [players EXCEPT ![1].dx = @ - 1]
    /\ Note("LEFT", 0, 0)
    /\ UNCHANGED <<playerToManipulate, WRAP_AROUND_SCREEN, detailed, constantUpdate,
                   advanceTimer, g_alpha, timeMouseReleased, drawHelpWindow, clock,
                   crashed>>

\* D
KeyD ==
    /\ ~crashed
    /\ detailed' = ~detailed
    /\ Note("D", 0, 0)
    /\ UNCHANGED <<players, playerToManipulate, WRAP_AROUND_SCREEN, constantUpdate,
                   advanceTimer, g_alpha, timeMouseReleased, drawHelpWindow, clock,
                   crashed>>

\* W: flip the global flag, then wrap every ship, whatever the new flag is
KeyW ==
    /\ ~crashed
    /\ WRAP_AROUND_SCREEN' = ~WRAP_AROUND_SCREEN
    /\ players' = wrapAll(players)
    /\ Note("W", 0, 0)
    /\ UNCHANGED <<playerToManipulate, detailed, constantUpdate, advanceTimer, g_alpha,
                   timeMouseReleased, drawHelpWindow, clock, crashed>>

\* T
KeyT ==
    /\ ~crashed
    /\ constantUpdate' = ~constantUpdate
    /\ Note("T", 0, 0)
    /\ UNCHANGED <<players, playerToManipulate, WRAP_AROUND_SCREEN, detailed,
                   advanceTimer, g_alpha, timeMouseReleased, drawHelpWindow, clock,
                   crashed>>

\* H pressed
KeyH ==
    /\ ~crashed
    /\ drawHelpWindow' = TRUE
    /\ Note("H", 0, 0)
    /\ UNCHANGED <<players, playerToManipulate, WRAP_AROUND_SCREEN, detailed,
                   constantUpdate, advanceTimer, g_alpha, timeMouseReleased, clock,
                   crashed>>

\* Mutant of chosen: the digit is taken whatever the number of ships.
chosenUnchecked(i, sel, n) == i

\* "if key == keyName and i < len(self.players): self.playerToManipulate = i"
chosen(i, sel, n) == IF i < n THEN i ELSE sel

\* NUMBER_KEYS[i] pressed (i is 0-based, as in the loop)
KeyNumber(i) ==
    /\ ~crashed
    /\ i \in 0 .. NUMBER_KEYS - 1
    /\ playerToManipulate' = chosen(i, playerToManipulate, Len(players))
    /\ Note("NUMBER", i, 0)
    /\ UNCHANGED <<players, WRAP_AROUND_SCREEN, detailed, constantUpdate, advanceTimer,
                   g_alpha, timeMouseReleased, drawHelpWindow, clock, crashed>>

\* ----------------------------------------------------------- on_key_release
\* H released (any other key: held_keys is empty, nothing changes)
KeyReleaseH ==
    /\ ~crashed
    /\ drawHelpWindow' = FALSE
    /\ Note("H_UP", 0, 0)
    /\ UNCHANGED <<players, playerToManipulate, WRAP_AROUND_SCREEN, detailed,
                   constantUpdate, advanceTimer, g_alpha, timeMouseReleased, clock,
                   crashed>>

\* ----------------------------------------------------------- on_mouse_press
\* right button at pixel (px, py): manageShipList; r are the draws of Ship()
MouseRight(px, py, r) ==
    /\ ~crashed
    /\ r \in ResetOutcomes
    /\ players' = managedPlayers(players, gridOf(px), gridOf(py), r)
    /\ playerToManipulate' =
           managedSelection(players, playerToManipulate, gridOf(px), gridOf(py))
    /\ Note("RIGHT_CLICK", gridOf(px), gridOf(py))
    /\ UNCHANGED <<WRAP_AROUND_SCREEN, detailed, constantUpdate, advanceTimer, g_alpha,
                   timeMouseReleased, drawHelpWindow, clock, crashed>>

\* manipulateMainShip(): the selected ship after a left press on cell (x, y)
manipulated(ship, x, y, now, released) ==
    IF now - released <= DOUBLE_CLICK_MS
    THEN [ship EXCEPT !.x = x, !.y = y]
    ELSE [ship EXCEPT !.dx = x - ship.x, !.dy = y - ship.y]

\* left button at pixel (px, py): manipulateMainShip; players[playerToManipulate]
\* raises IndexError when the index is out of range, before anything is changed
MouseLeft(px, py) ==
    /\ ~crashed
    /\ IF playerToManipulate < Len(players)
       THEN /\ players' = [players EXCEPT ![playerToManipulate + 1] =
                              manipulated(@, gridOf(px), gridOf(py), clock,
                                          timeMouseReleased)]
            /\ UNCHANGED crashed
       ELSE /\ crashed' = TRUE
            /\ UNCHANGED players
    /\ Note("LEFT_CLICK", gridOf(px), gridOf(py))
    /\ UNCHANGED <<playerToManipulate, WRAP_AROUND_SCREEN, detailed, constantUpdate,
                   advanceTimer, g_alpha, timeMouseReleased, drawHelpWindow, clock>>

\* --------------------------------------------------------- on_mouse_release
MouseReleaseLeft ==
    /\ ~crashed
    /\ timeMouseReleased' = clock
    /\ Note("LEFT_RELEASE", 0, 0)
    /\ UNCHANGED <<players, playerToManipulate, WRAP_AROUND_SCREEN, detailed,
                   constantUpdate, advanceTimer, g_alpha, drawHelpWindow, clock, crashed>>

\* a button other than the left one is released: nothing is assigned
MouseReleaseOther ==
    /\ ~crashed
    /\ Note("OTHER_RELEASE", 0, 0)
    /\ UNCHANGED <<players, playerToManipulate, WRAP_AROUND_SCREEN, detailed,
                   constantUpdate, advanceTimer, g_alpha, timeMouseReleased,
                   drawHelpWindow, clock, crashed>>

\* ------------------------------------------------------------------ drawing
\* in detailed mode Ship.drawDetailed() and Ship.drawInformation() read
\* velocity.angle; here for a ship of velocity (dx, dy), whatever else the
\* scene holds
ReadAngle(dx, dy) ==
    /\ ~crashed
    /\ detailed
    /\ angleRead' = read(dx, dy)
    /\ UNCHANGED <<players, playerToManipulate, WRAP_AROUND_SCREEN, detailed,
                   constantUpdate, advanceTimer, g_alpha, timeMouseReleased,
                   drawHelpWindow, clock, crashed, lastEvent, before, beforePair,
                   ticks>>

\* ------------------------------------------------------------------- update
\* Mutant of fadeIn: the opacity grows without the test against 255.
fadeInUnbounded(alpha) == alpha + ALPHA_STEP

\* update(): "if self.g_alpha < 255: self.g_alpha += 15"
fadeIn(alpha) == IF alpha < ALPHA_MAX THEN alpha + ALPHA_STEP ELSE alpha

\* update(): "self.advanceTimer -= 1" and "if self.advanceTimer <= 0"
timerExpires(timer) == timer - 1 <= 0

\* Mutant of rearmed: the countdown restarts one tick higher.
rearmedLate == ADVANCE_PERIOD + 1

\* update(): "self.advanceTimer = 30"
rearmed == ADVANCE_PERIOD

\* Mutant of Update: the countdown runs whether the timer flag is on or off.
UpdateCountingAlways ==
    /\ ~crashed
    /\ LET fires == constantUpdate /\ timerExpires(advanceTimer)
       IN  /\ g_alpha' = IF fires THEN 0 ELSE fadeIn(g_alpha)
           /\ advanceTimer' = IF fires THEN rearmed ELSE advanceTimer - 1
           /\ players' = IF fires THEN advanceAll(players, WRAP_AROUND_SCREEN)
                         ELSE players
           /\ Note(IF fires THEN "TICK_ADVANCE" ELSE "TICK", 0, 0)
    /\ UNCHANGED <<playerToManipulate, WRAP_AROUND_SCREEN, detailed, constantUpdate,
                   timeMouseReleased, drawHelpWindow, clock, crashed>>

\* one frame tick (check_keys() does nothing); the history tells a tick on which
\* the timer advanced the ships from one on which it did not
Update ==
    /\ ~crashed
    /\ LET fires == constantUpdate /\ timerExpires(advanceTimer)
       IN  /\ g_alpha' = IF fires THEN 0 ELSE fadeIn(g_alpha)
           /\ advanceTimer' = IF ~constantUpdate THEN advanceTimer
                              ELSE IF fires THEN rearmed ELSE advanceTimer - 1
           /\ players' = IF fires THEN advanceAll(players, WRAP_AROUND_SCREEN)
                         ELSE players
           /\ Note(IF fires THEN "TICK_ADVANCE" ELSE "TICK", 0, 0)
    /\ UNCHANGED <<playerToManipulate, WRAP_AROUND_SCREEN, detailed, constantUpdate,
                   timeMouseReleased, drawHelpWindow, clock, crashed>>

\* ------------------------------------------------------------- environment
\* d milliseconds of wall-clock time pass between two callbacks
TimePasses(d) ==
    /\ ~crashed
    /\ d > 0
    /\ clock' = clock + d
    /\ UNCHANGED <<players, playerToManipulate, WRAP_AROUND_SCREEN, detailed,
                   constantUpdate, advanceTimer, g_alpha, timeMouseReleased,
                   drawHelpWindow, crashed, lastEvent, before, beforePair, ticks,
                   angleRead>>

\* ------------------------------------------------------------ specifications
(***************************************************************************)
(* Spec: managing the collection.  The pointer works on two neighbouring   *)
(* cells, (2, 2) and (3, 2); reset() draws one of two outcomes; the digit  *)
(* keys tried are 1 .. MaxPlayers + 1; creation is requested only while    *)
(* fewer than MaxPlayers ships exist.  Time passes in steps just longer    *)
(* than the double-click window.                                           *)
(***************************************************************************)
ScenePixelXs == {2 * PIXELS_PER_GRID + 10, 3 * PIXELS_PER_GRID + PIXELS_PER_GRID - 1}
ScenePixelYs == {2 * PIXELS_PER_GRID}
SceneDraws == {Ship(2, 2, 0, 0), Ship(3, 2, 1, 0)}
SceneDigits == 0 .. MaxPlayers

Init == \E r \in SceneDraws : InitWith(r)

SceneCreationAllowed(px, py) ==
    shipAtPoint(players, gridOf(px), gridOf(py)) = 0 => Len(players) < MaxPlayers

Next ==
    \/ \E r \in SceneDraws : KeySpace(r)
    \/ \E i \in SceneDigits : KeyNumber(i)
    \/ \E px \in ScenePixelXs, py \in ScenePixelYs, r \in SceneDraws :
           SceneCreationAllowed(px, py) /\ MouseRight(px, py, r)
    \/ \E px \in ScenePixelXs, py \in ScenePixelYs : MouseLeft(px, py)
    \/ MouseReleaseLeft
    \/ (clock + DOUBLE_CLICK_MS + 1 <= MaxClock /\ TimePasses(DOUBLE_CLICK_MS + 1))

Spec == Init /\ [][Next]_vars

(***************************************************************************)
(* SpecCap: filling the collection.  The pointer's right button works on   *)
(* the cells (2, 2) .. (11, 2) of one row, requesting a creation only to   *)
(* the right of every ship (so that the ships stand on distinct cells,     *)
(* left to right) and a removal anywhere; reset() draws one outcome.       *)
(***************************************************************************)
CapPixelXs == {c * PIXELS_PER_GRID + 37 : c \in 2 .. SCREEN_WIDTH - 1}
CapPixelYs == {2 * PIXELS_PER_GRID + 37}
CapDraws == {Ship(2, 2, 1, -1)}
CapDigits == {MAX_NUMBER_OF_SHIPS - 1}

InitCap == \E r \in CapDraws : InitWith(r)

CapCreationAllowed(px, py) ==
    shipAtPoint(players, gridOf(px), gridOf(py)) = 0 =>
        \A i \in 1 .. Len(players) : players[i].x < gridOf(px)

NextCap ==
    \/ \E r \in CapDraws : KeySpace(r)
    \/ \E i \in CapDigits : KeyNumber(i)
    \/ \E px \in CapPixelXs, py \in CapPixelYs, r \in CapDraws :
           CapCreationAllowed(px, py) /\ MouseRight(px, py, r)

SpecCap == InitCap /\ [][NextCap]_vars

(***************************************************************************)
(* SpecMotion: advancing and wrapping.  The first ship starts at rest and  *)
(* the LEFT and RIGHT keys change its dx within -MaxSpeed .. MaxSpeed; the *)
(* right button creates a second ship on one empty cell, with one of two   *)
(* drawn velocities; A is pressed while every ship stays within MaxOut     *)
(* cells of the grid.                                                      *)
(***************************************************************************)
MotionPixelXs == {10 * PIXELS_PER_GRID + 5}
MotionPixelYs == {8 * PIXELS_PER_GRID + 5}
MotionInitDraws == {Ship(2, 2, 0, 0)}
MotionDraws == {Ship(5, 5, 3, 2), Ship(5, 5, -1, -3)}

InitMotion == \E r \in MotionInitDraws : InitWith(r)

Near(ship) ==
    /\ ship.x \in -MaxOut .. SCREEN_WIDTH + MaxOut
    /\ ship.y \in -MaxOut .. SCREEN_HEIGHT + MaxOut

MotionAdvanceAllowed ==
    \A i \in 1 .. Len(players) : Near(advance(players[i], FALSE))

MotionCreationAllowed(px, py) ==
    /\ shipAtPoint(players, gridOf(px), gridOf(py)) = 0
    /\ Len(players) = 1

NextMotion ==
    \/ (MotionAdvanceAllowed /\ KeyA)
    \/ KeyW
    \/ (players[1].dx < MaxSpeed /\ KeyRight)
    \/ (players[1].dx > -MaxSpeed /\ KeyLeft)
    \/ \E px \in MotionPixelXs, py \in MotionPixelYs, r \in MotionDraws :
           MotionCreationAllowed(px, py) /\ MouseRight(px, py, r)

SpecMotion == InitMotion /\ [][NextMotion]_vars

(***************************************************************************)
(* SpecKeys: the keyboard.  The four arrow keys are pressed while the      *)
(* first ship's velocity stays within -MaxSpeed .. MaxSpeed on each axis;  *)
(* the digit keys tried are 1 .. MaxPlayers + 1 and 9; the right button    *)
(* creates and removes ships on two cells, a new ship drawing one of two   *)
(* velocities; D, T and H are pressed and H released at will.              *)
(***************************************************************************)
KeysPixelXs == {4 * PIXELS_PER_GRID + 1, 7 * PIXELS_PER_GRID + PIXELS_PER_GRID - 1}
KeysPixelYs == {5 * PIXELS_PER_GRID}
KeysInitDraws == {Ship(2, 2, 0, 0)}
KeysDraws == {Ship(5, 5, -3, 1), Ship(5, 5, 2, -3)}
KeysDigits == (0 .. MaxPlayers) \cup {NUMBER_KEYS - 1}

InitKeys == \E r \in KeysInitDraws : InitWith(r)

KeysCreationAllowed(px, py) ==
    shipAtPoint(players, gridOf(px), gridOf(py)) = 0 => Len(players) < MaxPlayers

NextKeys ==
    \/ (players[1].dy < MaxSpeed /\ KeyUp)
    \/ (players[1].dy > -MaxSpeed /\ KeyDown)
    \/ (players[1].dx < MaxSpeed /\ KeyRight)
    \/ (players[1].dx > -MaxSpeed /\ KeyLeft)
    \/ \E i \in KeysDigits : KeyNumber(i)
    \/ \E px \in KeysPixelXs, py \in KeysPixelYs, r \in KeysDraws :
           KeysCreationAllowed(px, py) /\ MouseRight(px, py, r)
    \/ KeyD
    \/ KeyT
    \/ KeyH
    \/ KeyReleaseH

SpecKeys == InitKeys /\ [][NextKeys]_vars

(***************************************************************************)
(* SpecPointer: the left button.  The events of Spec, with the releases of *)
(* the other buttons, and with time passing in steps of exactly the        *)
(* double-click window and of one millisecond more.                        *)
(***************************************************************************)
PointerSteps == {DOUBLE_CLICK_MS, DOUBLE_CLICK_MS + 1}

NextPointer ==
    \/ \E r \in SceneDraws : KeySpace(r)
    \/ \E i \in SceneDigits : KeyNumber(i)
    \/ \E px \in ScenePixelXs, py \in ScenePixelYs, r \in SceneDraws :
           SceneCreationAllowed(px, py) /\ MouseRight(px, py, r)
    \/ \E px \in ScenePixelXs, py \in ScenePixelYs : MouseLeft(px, py)
    \/ MouseReleaseLeft
    \/ MouseReleaseOther
    \/ \E d \in PointerSteps : (clock + d <= MaxClock /\ TimePasses(d))

SpecPointer == Init /\ [][NextPointer]_vars

(***************************************************************************)
(* SpecTimer: the frame tick.  The first ship moves three cells to the     *)
(* left on every advance; the right button creates a second ship on one    *)
(* empty cell, moving three cells down; T and A are pressed at will, the   *)
(* screen wraps.  arcade calls update() on every frame for as long as the  *)
(* window is open, so the tick is weakly fair.                             *)
(***************************************************************************)
TimerPixelXs == {6 * PIXELS_PER_GRID + 5}
TimerPixelYs == {8 * PIXELS_PER_GRID + 5}
TimerInitDraws == {Ship(3, 2, -3, 0)}
TimerDraws == {Ship(5, 5, 0, -3)}

InitTimer == \E r \in TimerInitDraws : InitWith(r)

TimerCreationAllowed(px, py) ==
    /\ shipAtPoint(players, gridOf(px), gridOf(py)) = 0
    /\ Len(players) = 1

NextTimer ==
    \/ Update
    \/ KeyT
    \/ KeyA
    \/ \E px \in TimerPixelXs, py \in TimerPixelYs, r \in TimerDraws :
           TimerCreationAllowed(px, py) /\ MouseRight(px, py, r)

SpecTimer == InitTimer /\ [][NextTimer]_vars /\ WF_vars(Update)

(***************************************************************************)
(* SpecAngle: the angle as a function of the velocity.  The velocity read  *)
(* has components n * 2^e with n in -3 .. 3, the range reset() draws from, *)
(* and e either 0 or 51: a single click sets a velocity to the distance    *)
(* between the pointer and the ship, and with the wrap flag off ships      *)
(* travel without limit, so that a component of 2^51 cells per step next   *)
(* to one of a few cells per step is within reach of the input events.     *)
(* D switches the detailed mode, in which the angle is read.               *)
(***************************************************************************)
AngleDraws == {Ship(2, 2, 0, 0)}
AngleMantissas == randint(-3, 3)
AngleExponents == {0, 51}
AngleComponents == {Scaled(n, IF n = 0 THEN 0 ELSE e) :
                        n \in AngleMantissas, e \in AngleExponents}

InitAngle == \E r \in AngleDraws : InitWith(r)

NextAngle ==
    \/ KeyD
    \/ \E dx \in AngleComponents, dy \in AngleComponents : ReadAngle(dx, dy)

SpecAngle == InitAngle /\ [][NextAngle]_vars

(***************************************************************************)
(* SpecReset: resetting the first ship.  The draws offered to reset() are  *)
(* the corners of its ranges and the values just beyond them, of which     *)
(* reset() takes those random.randint can return; before a reset the RIGHT *)
(* and UP keys take the velocity up to MaxSpeed beyond the range and a     *)
(* double-click takes the ship to the corner cell (0, 0).                  *)
(***************************************************************************)
ResetXs == {1, 2, SCREEN_WIDTH - 2, SCREEN_WIDTH - 1}
ResetYs == {1, 2, SCREEN_HEIGHT - 2, SCREEN_HEIGHT - 1}
ResetSpeeds == {-4, -3, 3, 4}
ResetCandidates == [x : ResetXs, y : ResetYs, dx : ResetSpeeds, dy : ResetSpeeds]
ResetPixelXs == {PIXELS_PER_GRID - 1}
ResetPixelYs == {0}

InitReset == \E r \in ResetCandidates : InitWith(r)

NextReset ==
    \/ \E r \in ResetCandidates : KeySpace(r)
    \/ (players[1].dx < 3 + MaxSpeed /\ KeyRight)
    \/ (players[1].dy < 3 + MaxSpeed /\ KeyUp)
    \/ \E px \in ResetPixelXs, py \in ResetPixelYs : MouseLeft(px, py)

SpecReset == InitReset /\ [][NextReset]_vars

(***************************************************************************)
(* SpecBounds: staying on the grid.  The first ship starts with a velocity *)
(* towards the upper left and SPACE resets it to that state; the right     *)
(* button creates a second ship on one empty cell, moving to the lower     *)
(* right; the left button is double-clicked on the two cells in opposite   *)
(* corners of the window; RIGHT slows the first ship down until it moves    *)
(* straight up; A is pressed while every ship stays within MaxOut cells of *)
(* the grid, and W at will.                                                *)
(***************************************************************************)
BoundsInitDraws == {Ship(2, 2, -3, 3)}
BoundsDraws == {Ship(5, 5, 2, -3)}
BoundsPixelXs == {0, SCREEN_WIDTH * PIXELS_PER_GRID - 1}
BoundsPixelYs == {0, SCREEN_HEIGHT * PIXELS_PER_GRID - 1}
BoundsCorners == {c \in BoundsPixelXs \X BoundsPixelYs : (c[1] = 0) <=> (c[2] = 0)}

InitBounds == \E r \in BoundsInitDraws : InitWith(r)

NextBounds ==
    \/ (MotionAdvanceAllowed /\ KeyA)
    \/ KeyW
    \/ \E px \in MotionPixelXs, py \in MotionPixelYs, r \in BoundsDraws :
           MotionCreationAllowed(px, py) /\ MouseRight(px, py, r)
    \/ \E c \in BoundsCorners : MouseLeft(c[1], c[2])
    \/ \E r \in BoundsInitDraws : KeySpace(r)
    \/ (players[1].dx < 0 /\ KeyRight)

SpecBounds == InitBounds /\ [][NextBounds]_vars

\* ------------------------------------------------------------------- claims
\* What the claims read from the history variables.
RightClicked == lastEvent.op = "RIGHT_CLICK"
ClickedAt(ship) == ship.x = lastEvent.x /\ ship.y = lastEvent.y
NotClickedAt(ship) == ~ClickedAt(ship)
OccupiedBefore == \E i \in 1 .. Len(before.players) : ClickedAt(before.players[i])
Min(a, b) == IF a <= b THEN a ELSE b
\* The reset-to-edge rule of the specification, for one coordinate.
Edge(c, max) == IF c < 0 THEN max ELSE IF c > max THEN 0 ELSE c
InGrid(ship) ==
    /\ 0 <= ship.x /\ ship.x <= SCREEN_WIDTH
    /\ 0 <= ship.y /\ ship.y <= SCREEN_HEIGHT

\* C1: after any sequence of input events the selected index satisfies
\* 0 <= playerToManipulate < number of ships, so that a left press never
\* indexes the collection out of range (no IndexError ends the program).
C1_SelectedIndexInRange ==
    /\ 0 <= playerToManipulate
    /\ playerToManipulate < Len(players)
    /\ ~crashed

\* C2: SPACE, in any reachable state, leaves exactly one ship, in a state
\* reset() produces, and the selected index equal to 0.
C2_ResetLeavesOneShipSelected ==
    lastEvent.op = "SPACE" =>
        /\ Len(players) = 1
        /\ players[1] \in ResetOutcomes
        /\ playerToManipulate = 0

\* C3: the collection always holds at least 1 and at most MAX_NUMBER_OF_SHIPS
\* ships; a right click on an empty cell adds one ship until there are 9, and
\* from then on leaves 9.
C3_SizeWithinBounds ==
    /\ 1 <= Len(players)
    /\ Len(players) <= MAX_NUMBER_OF_SHIPS
    /\ (RightClicked /\ ~OccupiedBefore =>
            Len(players) = Min(Len(before.players) + 1, MAX_NUMBER_OF_SHIPS))

\* C3 witness: nine ships on nine distinct cells, reached by right clicks on
\* empty cells, the last of which found the collection full and was dropped.
C3_FullAndDropped ==
    /\ RightClicked
    /\ ~OccupiedBefore
    /\ Len(before.players) = MAX_NUMBER_OF_SHIPS
    /\ Len(players) = MAX_NUMBER_OF_SHIPS
    /\ \A i, j \in 1 .. Len(players) :
           i # j => players[i].x # players[j].x \/ players[i].y # players[j].y

\* C4: a right click on the cell of the last remaining ship leaves the
\* collection as it was: one ship, nothing removed, nothing created.
C4_LastShipClickKeepsOne ==
    RightClicked /\ Len(before.players) = 1 /\ OccupiedBefore =>
        players = before.players

C5_AllOnClickedCell ==
    /\ RightClicked
    /\ Len(before.players) = 3
    /\ \A i \in 1 .. 3 : ClickedAt(before.players[i])
    /\ before.players[1] # before.players[3]
    /\ players = <<before.players[3]>>

\* C6: after a right click that removed a ship, the selected index is
\* min(previous selected index, new size - 1).
C6_SelectionReclamped ==
    RightClicked /\ Len(players) < Len(before.players) =>
        playerToManipulate = Min(before.playerToManipulate, Len(players) - 1)

\* C6 witness: 3 ships, index 2 selected, the ship at index 2 removed.
C6_LastSelectedRemoved ==
    /\ RightClicked
    /\ Len(before.players) = 3
    /\ before.playerToManipulate = 2
    /\ ClickedAt(before.players[3])
    /\ Len(players) = 2
    /\ playerToManipulate = 1

\* C6, the other case reached: a removal that left the index as it was.
C6_SelectionKept ==
    /\ RightClicked
    /\ Len(players) < Len(before.players)
    /\ before.playerToManipulate = 1
    /\ playerToManipulate = 1

\* C7: a right click on an empty cell appends one ship, on that cell, when
\* fewer than 9 exist, and changes nothing when 9 exist; the ships already
\* there, their order and the selected index stay as they were.
C7_CreationAppends ==
    RightClicked /\ ~OccupiedBefore =>
        /\ playerToManipulate = before.playerToManipulate
        /\ IF Len(before.players) < MAX_NUMBER_OF_SHIPS
           THEN /\ Len(players) = Len(before.players) + 1
                /\ SubSeq(players, 1, Len(before.players)) = before.players
                /\ ClickedAt(players[Len(players)])
           ELSE players = before.players

\* C7 witness: a ship was appended behind several others while a ship other
\* than the first was selected.
C7_AppendedBehindOthers ==
    /\ RightClicked
    /\ ~OccupiedBefore
    /\ Len(before.players) >= 2
    /\ Len(players) = Len(before.players) + 1
    /\ playerToManipulate > 0

\* C8: A advances every ship exactly once: position plus own velocity, wrapped
\* if and only if the wrap flag is set; velocities, membership, order and the
\* selected index stay, and the opacity becomes 0.
C8_AdvanceAll ==
    lastEvent.op = "A" =>
        /\ g_alpha = 0
        /\ playerToManipulate = before.playerToManipulate
        /\ WRAP_AROUND_SCREEN = before.WRAP_AROUND_SCREEN
        /\ Len(players) = Len(before.players)
        /\ \A i \in 1 .. Len(players) :
               LET old == before.players[i]
               IN  /\ players[i].dx = old.dx
                   /\ players[i].dy = old.dy
                   /\ players[i].x = IF WRAP_AROUND_SCREEN
                                     THEN Edge(old.x + old.dx, SCREEN_WIDTH)
                                     ELSE old.x + old.dx
                   /\ players[i].y = IF WRAP_AROUND_SCREEN
                                     THEN Edge(old.y + old.dy, SCREEN_HEIGHT)
                                     ELSE old.y + old.dy

\* C8 witness: two ships of different velocities advanced with the wrap flag
\* off, one of them leaving the grid.
C8_TwoShipsAdvanced ==
    /\ lastEvent.op = "A"
    /\ ~WRAP_AROUND_SCREEN
    /\ Len(players) = 2
    /\ players[1].dx # players[2].dx
    /\ players[1].dx # 0
    /\ InGrid(before.players[2])
    /\ ~InGrid(players[2])

\* C8, the other case reached: an advance with the wrap flag on wrapped a ship.
C8_AdvanceWrapped ==
    /\ lastEvent.op = "A"
    /\ WRAP_AROUND_SCREEN
    /\ \E i \in 1 .. Len(players) :
           /\ before.players[i].x + before.players[i].dx > SCREEN_WIDTH + 1
           /\ players[i].x = 0

\* C9: wrapOffScreen(), as W applies it to every ship, resets each axis on its
\* own: below 0 to the maximum, above the maximum to 0, otherwise unchanged,
\* whatever the overshoot; applying it again changes nothing.
C9_WrapIsResetToEdge ==
    lastEvent.op = "W" =>
        /\ Len(players) = Len(before.players)
        /\ \A i \in 1 .. Len(players) :
               LET old == before.players[i]
               IN  /\ players[i].x = Edge(old.x, SCREEN_WIDTH)
                   /\ players[i].y = Edge(old.y, SCREEN_HEIGHT)
                   /\ players[i].dx = old.dx
                   /\ players[i].dy = old.dy
                   /\ old.x = SCREEN_WIDTH + 1 => players[i].x = 0
                   /\ old.x = -1 => players[i].x = SCREEN_WIDTH
                   /\ InGrid(old) => players[i] = old
                   /\ wrapOffScreen(players[i]) = players[i]

\* C9 witness: W wrapped a ship that was more than one cell beyond the right
\* edge and, on the other axis, inside the grid, and another one below the
\* bottom edge.
C9_OvershootWrapped ==
    /\ lastEvent.op = "W"
    /\ \E i \in 1 .. Len(players) :
           /\ before.players[i].x > SCREEN_WIDTH + 1
           /\ before.players[i].y \in 0 .. SCREEN_HEIGHT
           /\ players[i].x = 0
    /\ \E i \in 1 .. Len(players) :
           /\ before.players[i].y < 0
           /\ players[i].y = SCREEN_HEIGHT

\* C9, boundary cases reached: a coordinate equal to the maximum was kept, and
\* coordinates of max + 1 and of -1 were wrapped.
C9_MaximumKept ==
    /\ lastEvent.op = "W"
    /\ \E i \in 1 .. Len(players) :
           before.players[i].x = SCREEN_WIDTH /\ players[i].x = SCREEN_WIDTH

C9_OneBeyondWrapped ==
    /\ lastEvent.op = "W"
    /\ \E i \in 1 .. Len(players) : before.players[i].x = SCREEN_WIDTH + 1
    /\ \E i \in 1 .. Len(players) : before.players[i].x = -1

\* C9, the fourth direction reached: a ship more than one cell above the top
\* edge was put on the bottom edge.
C9_AboveTopWrapped ==
    /\ lastEvent.op = "W"
    /\ \E i \in 1 .. Len(players) :
           before.players[i].y > SCREEN_HEIGHT + 1 /\ players[i].y = 0
    /\ \E i \in 1 .. Len(players) :
           before.players[i].x < -1 /\ players[i].x = SCREEN_WIDTH

\* C10 as stated: two W presses in a row return the wrap flag to its value
\* and leave every ship's position as it was before the first of them.
C10_DoubleToggleKeepsPositions ==
    beforePair.valid =>
        /\ WRAP_AROUND_SCREEN = beforePair.WRAP_AROUND_SCREEN
        /\ Len(players) = Len(beforePair.players)
        /\ \A i \in 1 .. Len(players) :
               /\ players[i].x = beforePair.players[i].x
               /\ players[i].y = beforePair.players[i].y

\* C10 as amended: two W presses in a row return the wrap flag to its value
\* and leave every ship where one wrapOffScreen() puts it from its position
\* before the first press: a ship that was on the grid is where it was, a ship
\* that was off the grid is on the opposite edge.
C10_DoubleToggleWrapsOnce ==
    beforePair.valid =>
        /\ WRAP_AROUND_SCREEN = beforePair.WRAP_AROUND_SCREEN
        /\ Len(players) = Len(beforePair.players)
        /\ \A i \in 1 .. Len(players) :
               LET old == beforePair.players[i]
               IN  /\ players[i].x = Edge(old.x, SCREEN_WIDTH)
                   /\ players[i].y = Edge(old.y, SCREEN_HEIGHT)
                   /\ InGrid(old) => players[i] = old

\* C10 witness: two W presses in a row, the first with the flag off, one ship
\* off the grid and one on it.
C10_ToggledTwiceOffGrid ==
    /\ beforePair.valid
    /\ ~beforePair.WRAP_AROUND_SCREEN
    /\ \E i \in 1 .. Len(players) : ~InGrid(beforePair.players[i])
    /\ \E i \in 1 .. Len(players) : InGrid(beforePair.players[i])

\* What a press of an arrow key adds to the velocity of the ship it steers.
ArrowDelta ==
    CASE lastEvent.op = "UP" -> [dx |-> 0, dy |-> 1]
      [] lastEvent.op = "DOWN" -> [dx |-> 0, dy |-> -1]
      [] lastEvent.op = "RIGHT" -> [dx |-> 1, dy |-> 0]
      [] lastEvent.op = "LEFT" -> [dx |-> -1, dy |-> 0]
      [] OTHER -> [dx |-> 0, dy |-> 0]
ArrowPressed == lastEvent.op \in {"UP", "DOWN", "RIGHT", "LEFT"}
Steered(ship) == [ship EXCEPT !.dx = @ + ArrowDelta.dx, !.dy = @ + ArrowDelta.dy]

\* C11: with ship i selected (by a digit key), an arrow key changes the
\* velocity of ship i -- dy by +1 for UP, by -1 for DOWN, dx by +1 for RIGHT,
\* by -1 for LEFT -- and changes no other ship's velocity and no position.
C11_ArrowSteersSelected ==
    (ArrowPressed /\ before.playerToManipulate < Len(before.players)) =>
        /\ Len(players) = Len(before.players)
        /\ \A k \in 1 .. Len(players) :
               players[k] = IF k = before.playerToManipulate + 1
                            THEN Steered(before.players[k])
                            ELSE before.players[k]

\* What the claims about the left button read from the history variables.
LeftPressed == lastEvent.op = "LEFT_CLICK"
SinceRelease == before.clock - before.timeMouseReleased
SelectedBefore == before.playerToManipulate + 1
HadSelected == before.playerToManipulate < Len(before.players)
OthersKept ==
    /\ Len(players) = Len(before.players)
    /\ \A k \in 1 .. Len(players) : k # SelectedBefore => players[k] = before.players[k]
    /\ playerToManipulate = before.playerToManipulate
VelocitySet ==
    players[SelectedBefore] =
        [before.players[SelectedBefore] EXCEPT
            !.dx = lastEvent.x - before.players[SelectedBefore].x,
            !.dy = lastEvent.y - before.players[SelectedBefore].y]
PositionSet ==
    players[SelectedBefore] =
        [before.players[SelectedBefore] EXCEPT !.x = lastEvent.x, !.y = lastEvent.y]

\* C12: a left press more than 100 ms after the last left release sets the
\* selected ship's velocity to (clicked cell - its position), componentwise,
\* and leaves its position, every other ship, the collection and the selected
\* index as they were.
C12_SingleClickSetsVelocity ==
    (LeftPressed /\ SinceRelease > DOUBLE_CLICK_MS) =>
        /\ ~crashed
        /\ HadSelected
        /\ VelocitySet
        /\ OthersKept

\* C12, with the selected index in range before the press: the same effect.
C12_SingleClickInRange ==
    (LeftPressed /\ SinceRelease > DOUBLE_CLICK_MS /\ HadSelected) =>
        (~crashed /\ VelocitySet /\ OthersKept)

\* C13: a left press at most 100 ms after the last left release sets the
\* selected ship's position to the clicked cell and changes no velocity, and
\* only a release of the left button changes the stored release time.
C13_DoubleClickSetsPosition ==
    /\ (LeftPressed /\ SinceRelease <= DOUBLE_CLICK_MS) =>
           /\ ~crashed
           /\ HadSelected
           /\ PositionSet
           /\ OthersKept
    /\ timeMouseReleased # before.timeMouseReleased => lastEvent.op = "LEFT_RELEASE"

\* C13, with the selected index in range before the press: the same effect.
C13_DoubleClickInRange ==
    /\ (LeftPressed /\ SinceRelease <= DOUBLE_CLICK_MS /\ HadSelected) =>
           (~crashed /\ PositionSet /\ OthersKept)
    /\ timeMouseReleased # before.timeMouseReleased => lastEvent.op = "LEFT_RELEASE"

\* C13 in range, on the edge of the window: a press exactly 100 ms after the
\* stored release time moved the ship to a cell it was not on.
C13_PressAtWindowEdge ==
    /\ LeftPressed /\ SinceRelease = DOUBLE_CLICK_MS /\ HadSelected
    /\ players[SelectedBefore].x # before.players[SelectedBefore].x

\* What a callback that assigns neither a flag nor a counter leaves alone.
FlagsAndCountersKept ==
    /\ WRAP_AROUND_SCREEN = before.WRAP_AROUND_SCREEN
    /\ detailed = before.detailed
    /\ constantUpdate = before.constantUpdate
    /\ drawHelpWindow = before.drawHelpWindow
    /\ advanceTimer = before.advanceTimer
    /\ g_alpha = before.g_alpha
    /\ timeMouseReleased = before.timeMouseReleased
DigitPressed == lastEvent.op = "NUMBER"

\* C14: digit key d (lastEvent.x = d - 1) sets the selected index to d - 1 if
\* d - 1 < number of ships and leaves it as it was otherwise; either way no
\* ship, flag or counter changes.
C14_DigitSelects ==
    DigitPressed =>
        /\ playerToManipulate = IF lastEvent.x < Len(before.players)
                                THEN lastEvent.x
                                ELSE before.playerToManipulate
        /\ players = before.players
        /\ FlagsAndCountersKept
        /\ ~crashed

\* C14 happening: with two ships and the second selected, a digit beyond the
\* collection was pressed and the second ship is still the selected one.
C14_DigitBeyondIgnored ==
    /\ DigitPressed
    /\ Len(players) = 2
    /\ lastEvent.x >= Len(players)
    /\ playerToManipulate = 1

\* C14 happening: with three ships and the second selected, 3 selected the third.
C14_DigitMovedSelection ==
    /\ DigitPressed
    /\ Len(players) = 3
    /\ before.playerToManipulate = 1
    /\ playerToManipulate = 2

\* What the claims about the frame tick read from the history variables.
Ticked == lastEvent.op \in {"TICK", "TICK_ADVANCE"}
TickFired == lastEvent.op = "TICK_ADVANCE"
\* One advance of a ship as the specification words it: the velocity is added
\* to the position, and with the wrap flag on a coordinate beyond the grid is
\* reset to the opposite edge.
Moved(ship, wrap) ==
    [ship EXCEPT !.x = IF wrap THEN Edge(ship.x + ship.dx, SCREEN_WIDTH)
                               ELSE ship.x + ship.dx,
                 !.y = IF wrap THEN Edge(ship.y + ship.dy, SCREEN_HEIGHT)
                               ELSE ship.y + ship.dy]
AllMovedOnce ==
    /\ Len(players) = Len(before.players)
    /\ \A k \in 1 .. Len(players) :
           players[k] = Moved(before.players[k], before.WRAP_AROUND_SCREEN)

\* C15, what holds in every state: on a tick with the timer flag on, the ships
\* are advanced exactly when the countdown less 1 is <= 0, each ship once, and
\* the countdown is 30 afterwards; on any other tick no ship moves; with the
\* flag left on, 30 ticks separate one timer-driven advance from the next.
C15_TimerSteps ==
    /\ (Ticked /\ before.constantUpdate /\ before.advanceTimer - 1 <= 0) =>
           (TickFired /\ AllMovedOnce /\ advanceTimer = ADVANCE_PERIOD)
    /\ (Ticked /\ before.constantUpdate /\ before.advanceTimer - 1 > 0) =>
           (~TickFired /\ players = before.players
                       /\ advanceTimer = before.advanceTimer - 1)
    /\ (Ticked /\ ~before.constantUpdate) =>
           (~TickFired /\ players = before.players
                       /\ advanceTimer = before.advanceTimer)
    /\ ticks.gap \in {-1, ADVANCE_PERIOD}
    /\ (constantUpdate /\ ticks.sinceAuto >= 0) =>
           advanceTimer = ADVANCE_PERIOD - ticks.sinceAuto

\* C15, what always eventually happens: with the timer flag on and the ticks
\* continuing, a timer-driven advance occurs unless the flag is turned off.
C15_AdvanceEventually ==
    [](constantUpdate => <>(~constantUpdate \/ TickFired))

\* C15: while the timer flag stays on, the ships are advanced on a tick exactly
\* when the countdown, decremented on that tick, is <= 0; the countdown is then
\* 30 again, so that two timer-driven advances in a row are 30 ticks apart;
\* each advances every ship once; and an advance always eventually occurs.
C15_TimerAdvances == []C15_TimerSteps /\ C15_AdvanceEventually

\* C15 happening: the timer has just advanced two ships, 30 ticks after it
\* advanced them the time before.
C15_SecondAdvanceOfTwo ==
    /\ TickFired
    /\ ticks.gap = ADVANCE_PERIOD
    /\ Len(players) = 2
    /\ players[1] # before.players[1]
    /\ players[2] # before.players[2]

\* What the claims about the opacity read from the history variables.
Advanced == lastEvent.op \in {"A", "TICK_ADVANCE"}
OpacityInRange == 0 <= g_alpha /\ g_alpha <= ALPHA_MAX
OpaqueAfterTicks ==
    ticks.sinceAdvance >= 0 => g_alpha = Min(ALPHA_MAX, ALPHA_STEP * ticks.sinceAdvance)

\* C16 as stated: the opacity is 0 right after any advance of the ships (A or
\* timer), grows by exactly 15 on every frame tick while it is below 255, stays
\* within 0 .. 255, and is 255 from the 17th tick after the last advance on.
C16_FadeEveryTick ==
    /\ OpacityInRange
    /\ Advanced => g_alpha = 0
    /\ (Ticked /\ before.g_alpha < ALPHA_MAX) => g_alpha = before.g_alpha + ALPHA_STEP
    /\ OpaqueAfterTicks

\* C16 amended: the opacity is 0 right after any advance of the ships (A or
\* timer), grows by exactly 15 on every frame tick that does not advance the
\* ships while it is below 255 and is left at 255 by such a tick once there,
\* stays within 0 .. 255, and is 255 from the 17th tick after the last
\* advance on.
C16_FadeBetweenAdvances ==
    /\ OpacityInRange
    /\ Advanced => g_alpha = 0
    /\ (Ticked /\ ~TickFired /\ before.g_alpha < ALPHA_MAX) =>
           g_alpha = before.g_alpha + ALPHA_STEP
    /\ (Ticked /\ ~TickFired /\ before.g_alpha >= ALPHA_MAX) => g_alpha = ALPHA_MAX
    /\ OpaqueAfterTicks

\* C16 happening: the 17th tick after an advance took the opacity from 240 to
\* 255.
C16_OpaqueOnTick17 ==
    /\ lastEvent.op = "TICK"
    /\ ticks.sinceAdvance = ALPHA_MAX \div ALPHA_STEP
    /\ before.g_alpha = ALPHA_MAX - ALPHA_STEP
    /\ g_alpha = ALPHA_MAX

\* C16 happening: a tick left the full opacity alone.
C16_StaysOpaque ==
    /\ lastEvent.op = "TICK"
    /\ ticks.sinceAdvance > ALPHA_MAX \div ALPHA_STEP
    /\ before.g_alpha = ALPHA_MAX
    /\ g_alpha = ALPHA_MAX

\* C16 happening: the timer advanced the ships on a tick that found the
\* opacity below 255, and left it at 0.
C16_TimerAdvanceWhileFading ==
    /\ TickFired
    /\ before.g_alpha < ALPHA_MAX
    /\ g_alpha = 0

\* What the claims about the angle read from the last reading.
ReadDx == angleRead.dx.n
ReadDy == angleRead.dy.n
ReadAngleValue == angleRead.degrees.angle
Below(angle, degrees) ==
    angle.milli < degrees * 1000 \/ (angle.milli = degrees * 1000 /\ angle.off < 0)
Above(angle, degrees) ==
    angle.milli > degrees * 1000 \/ (angle.milli = degrees * 1000 /\ angle.off > 0)
Between(angle, low, high) == Above(angle, low) /\ Below(angle, high)

\* C17: for an axis-aligned velocity the angle is exact -- 0 for dy = 0 and
\* dx >= 0 (at rest included), 180 for dy = 0 and dx < 0, 90 for dx = 0 and
\* dy > 0, 270 for dx = 0 and dy < 0 -- and |dy| / |dx| is formed only when
\* dx and dy are both nonzero, so that no division by zero is raised.
C17_AxisAnglesExact ==
    /\ (ReadDy = 0 /\ ReadDx >= 0) => ReadAngleValue = Whole(0)
    /\ (ReadDy = 0 /\ ReadDx < 0) => ReadAngleValue = Whole(180)
    /\ (ReadDx = 0 /\ ReadDy > 0) => ReadAngleValue = Whole(90)
    /\ (ReadDx = 0 /\ ReadDy < 0) => ReadAngleValue = Whole(270)
    /\ angleRead.degrees.divided => (ReadDx # 0 /\ ReadDy # 0)
    /\ ~angleRead.degrees.raised

\* C17 happening: the angle of a velocity straight down, 2^51 cells per step
\* and more, was read as 270.
C17_StraightDown ==
    /\ ReadDx = 0
    /\ ReadDy < 0
    /\ angleRead.dy.e > 0
    /\ ReadAngleValue = Whole(270)
    /\ ~angleRead.degrees.divided

\* The reference angle t = atan(|dy| / |dx|) in degrees of the velocity read,
\* and what the claim makes of it in each quadrant, computed without rounding.
Reference ==
    degreesOfAtan[<<abs(ReadDy), abs(ReadDx), angleRead.dy.e - angleRead.dx.e>>]
Mirrored(whole, angle) ==
    Angle(whole * 1000 - angle.milli, -angle.off, angle.lg, angle.pow)
Turned(whole, angle) ==
    Angle(whole * 1000 + angle.milli, angle.off, angle.lg, angle.pow)
Diagonal == ReadDx # 0 /\ ReadDy # 0
InQuadrant ==
    /\ Between(Reference, 0, 90)
    /\ (ReadDx > 0 /\ ReadDy > 0) =>
           (ReadAngleValue = Reference /\ Between(ReadAngleValue, 0, 90))
    /\ (ReadDx > 0 /\ ReadDy < 0) =>
           (ReadAngleValue = Mirrored(360, Reference)
                /\ Between(ReadAngleValue, 270, 360))
    /\ (ReadDx < 0 /\ ReadDy > 0) =>
           (ReadAngleValue = Mirrored(180, Reference)
                /\ Between(ReadAngleValue, 90, 180))
    /\ (ReadDx < 0 /\ ReadDy < 0) =>
           (ReadAngleValue = Turned(180, Reference)
                /\ Between(ReadAngleValue, 180, 270))

\* C18, first clause: for every velocity the angle lies in [0, 360).
C18_AngleInRange == ~Below(ReadAngleValue, 0) /\ Below(ReadAngleValue, 360)

\* C18: for every velocity the angle lies in [0, 360); for dx and dy both
\* nonzero, with t = atan(|dy| / |dx|) in degrees, 0 < t < 90, the angle is t in
\* quadrant I, 360 - t in IV, 180 - t in II, 180 + t in III, strictly inside
\* the quadrant of (dx, dy).
C18_AngleInQuadrant == C18_AngleInRange /\ (Diagonal => InQuadrant)

\* C18, for components of like magnitude (the same power of two): it holds.
C18_LikeMagnitudes ==
    angleRead.dx.e = angleRead.dy.e => (C18_AngleInRange /\ (Diagonal => InQuadrant))

\* C18 for like magnitudes happening: (-2, -1) was read as 180 + 26.565.
C18_ThirdQuadrantRead ==
    /\ angleRead.dx = Scaled(-2, 0)
    /\ angleRead.dy = Scaled(-1, 0)
    /\ ReadAngleValue.milli = 206565

\* C19: after reset() of a ship -- of the first ship at construction and on
\* SPACE -- its position is an integer point with x in 2 .. SCREEN_WIDTH - 2
\* and y in 2 .. SCREEN_HEIGHT - 2, and each velocity component is an integer
\* in -3 .. 3.
C19_ResetWithinRanges ==
    lastEvent.op \in {"INIT", "SPACE"} =>
        /\ players[1].x \in Int /\ players[1].y \in Int
        /\ 2 <= players[1].x /\ players[1].x <= SCREEN_WIDTH - 2
        /\ 2 <= players[1].y /\ players[1].y <= SCREEN_HEIGHT - 2
        /\ players[1].dx \in Int /\ players[1].dy \in Int
        /\ -3 <= players[1].dx /\ players[1].dx <= 3
        /\ -3 <= players[1].dy /\ players[1].dy <= 3

\* C19 happening: SPACE reset a ship that stood on the corner cell (0, 0) with
\* dx above 3, and the draws were the largest position and the lowest speeds.
C19_ResetFromOutside ==
    /\ lastEvent.op = "SPACE"
    /\ before.players[1].x = 0 /\ before.players[1].y = 0
    /\ before.players[1].dx > 3
    /\ players[1] = Ship(SCREEN_WIDTH - 2, SCREEN_HEIGHT - 2, -3, -3)

\* What the claims about the grid read from the state.
AllInGrid(ps) == \A i \in 1 .. Len(ps) : InGrid(ps[i])

\* C20: whenever the wrap flag is on, every ship's position satisfies
\* 0 <= x <= SCREEN_WIDTH and 0 <= y <= SCREEN_HEIGHT (pointer presses being
\* inside the window); a ship is beyond these bounds only while the flag is
\* off, and turning the flag on brings every ship within them at once.
C20_WrapKeepsShipsInGrid == WRAP_AROUND_SCREEN => AllInGrid(players)

\* C20 happening: W has just turned the wrap flag on with a ship beyond the
\* grid, and every ship is within it.
C20_WrapEnabledOffGrid ==
    /\ lastEvent.op = "W"
    /\ WRAP_AROUND_SCREEN
    /\ ~before.WRAP_AROUND_SCREEN
    /\ ~AllInGrid(before.players)
    /\ AllInGrid(players)

\* C20 happening: with the wrap flag on, an advance took a ship from a corner
\* cell across two edges at once.
C20_AdvancedAcrossCorner ==
    /\ lastEvent.op = "A"
    /\ WRAP_AROUND_SCREEN
    /\ \E i \in 1 .. Len(players) :
           /\ ~InGrid(advance(before.players[i], FALSE))
           /\ players[i].x # before.players[i].x + before.players[i].dx
           /\ players[i].y # before.players[i].y + before.players[i].dy

\* C21: a right click that removes ships, none of them the selected one,
\* leaves the same ship selected: the selected index follows the ship when
\* ships before it are removed.
C21_SelectionFollowsShip ==
    (/\ RightClicked
     /\ HadSelected
     /\ Len(players) < Len(before.players)
     /\ NotClickedAt(before.players[SelectedBefore])) =>
        /\ playerToManipulate < Len(players)
        /\ players[playerToManipulate + 1] = before.players[SelectedBefore]

\* C21, when the removal leaves fewer ships than the selected index counts:
\* the index is lowered onto the last ship, which is the one that was selected
\* if every ship behind it was removed too.
C21_SelectionFollowsLastShip ==
    (/\ RightClicked
     /\ HadSelected
     /\ Len(players) < Len(before.players)
     /\ NotClickedAt(before.players[SelectedBefore])
     /\ \A k \in 1 .. Len(before.players) :
            k # SelectedBefore => ClickedAt(before.players[k])) =>
        /\ playerToManipulate = 0
        /\ players = <<before.players[SelectedBefore]>>

\* C22: with the timer flag off, a frame tick changes no ship's position or
\* velocity and leaves the countdown alone (only the opacity may rise); T
\* changes the flag and not the countdown, so that turning the timer off and
\* on neither resets nor re-arms it; and A leaves the countdown alone too.
C22_CountdownFrozen ==
    /\ (Ticked /\ ~before.constantUpdate) =>
           /\ players = before.players
           /\ advanceTimer = before.advanceTimer
           /\ g_alpha >= before.g_alpha
           /\ constantUpdate = before.constantUpdate
    /\ lastEvent.op = "T" =>
           /\ constantUpdate = ~before.constantUpdate
           /\ advanceTimer = before.advanceTimer
           /\ players = before.players
    /\ lastEvent.op = "A" => advanceTimer = before.advanceTimer

\* C22 happening: T has just turned the timer on again with the countdown in
\* mid-course, where it stood when the timer was turned off.
C22_ResumedMidCourse ==
    /\ lastEvent.op = "T"
    /\ constantUpdate
    /\ advanceTimer > 1
    /\ advanceTimer < ADVANCE_PERIOD

\* C22 happening: with the timer off and the countdown in mid-course, a tick
\* raised the opacity and nothing else.
C22_TickWhileOff ==
    /\ lastEvent.op = "TICK"
    /\ ~constantUpdate
    /\ advanceTimer > 1
    /\ advanceTimer < ADVANCE_PERIOD
    /\ g_alpha > before.g_alpha

\* C22 happening: A advanced the ships with the countdown in mid-course.
C22_ManualAdvanceMidCourse ==
    /\ lastEvent.op = "A"
    /\ advanceTimer > 1
    /\ advanceTimer < ADVANCE_PERIOD
    /\ players # before.players

====
